---- MODULE Spec2Model ----
(***************************************************************************)
(* Model of the authentication provider of @basictech/expo                 *)
(* (src/src/index.tsx, BasicProvider): the persisted secrets, the          *)
(* in-memory AuthState, and the asynchronous operations loadStoredAuth,    *)
(* fetchToken, refreshAccessToken, signout, login and handleLoginCode.     *)
(* Every await of the source is a suspension point: an action of the model *)
(* is the code that runs between two awaits of one invocation.             *)
(***************************************************************************)
EXTENDS Integers, Sequences, FiniteSets, TLC

\* ------------------------------------------------------------------------
\* Bounds of the model
\* ------------------------------------------------------------------------
NumCallers == 2
MaxTicks == 1
\* number of calls the application makes in one run (fetchToken, signout,
\* native login), besides the mount of the provider
MaxOps == 2
\* the number of signout() calls made in a row
MaxSignouts == 2

Callers == 1..NumCallers

\* ------------------------------------------------------------------------
\* Values
\* ------------------------------------------------------------------------
TOKEN_STORAGE_KEY == "auth_tokens"
USER_INFO_STORAGE_KEY == "user_info"
Keys == {TOKEN_STORAGE_KEY, USER_INFO_STORAGE_KEY}

\* the safety margin of isTokenExpired, in milliseconds
BufferMs == 5 * 60 * 1000

\* the identity provider: lifetime of the access tokens it issues (seconds),
\* the clock at start-up and the step of the clock (milliseconds)
ExpiresInSec == (2 * BufferMs) \div 1000
NowStart == 4 * BufferMs
TickMs == BufferMs

\* users known to the identity provider; the name of "li" has characters
\* outside Latin-1
Users == {"alice", "li"}
NoUser == "none"
NonLatin1(u) == u = "li"

\* an access token: jti identifies it; when it is a JWT its payload carries
\* sub and exp (exp = 0: the payload has no exp claim), otherwise it has no
\* payload that can be decoded
NoToken == [jti |-> 0, sub |-> NoUser, exp |-> 0, jwt |-> FALSE]
Jwt(n, u, e) == [jti |-> n, sub |-> u, exp |-> e, jwt |-> TRUE]
OpaqueToken(n, u) == [jti |-> n, sub |-> u, exp |-> 0, jwt |-> FALSE]

\* a refresh token is opaque
NoRefresh == 0

\* the response of the token endpoint
NoTokenData == [access_token |-> NoToken, refresh_token |-> NoRefresh]
TokenData(n, u, nowMs) ==
  [access_token |-> Jwt(n, u, (nowMs \div 1000) + ExpiresInSec),
   refresh_token |-> n]

\* results of an operation
NoResult == [kind |-> "pending", token |-> NoToken]
Resolved(t) == [kind |-> "resolved", token |-> t]
Rejected == [kind |-> "rejected", token |-> NoToken]

\* ------------------------------------------------------------------------
\* Pure functions of the source
\* ------------------------------------------------------------------------

\* decodeJWT: the payload of the token, or null (isNull) when the token
\* cannot be decoded
decodeJWT(token) ==
  IF token.jwt
    THEN [isNull |-> FALSE, exp |-> token.exp, sub |-> token.sub]
    ELSE [isNull |-> TRUE, exp |-> 0, sub |-> NoUser]

isTokenExpired_Inverted(token, nowMs) ==
  LET decoded == decodeJWT(token)
  IN  IF decoded.isNull \/ decoded.exp = 0 THEN TRUE
      ELSE nowMs <= (decoded.exp * 1000 - BufferMs)

isTokenExpired_Late(token, nowMs) ==
  LET decoded == decodeJWT(token)
  IN  IF decoded.isNull \/ decoded.exp = 0 THEN TRUE
      ELSE nowMs > (decoded.exp * 1000 - BufferMs)

\* isTokenExpired
isTokenExpired(token, nowMs) ==
  LET decoded == decodeJWT(token)
  IN  IF decoded.isNull \/ decoded.exp = 0 THEN TRUE
      ELSE nowMs >= (decoded.exp * 1000 - BufferMs)

\* JSON.stringify of an object: its key/value pairs in insertion order
NoBlob == <<>>
StringifyTokens(td) ==
  << <<"accessToken", td.access_token>>, <<"refreshToken", td.refresh_token>> >>
StringifyUser(u) == << <<"id", u>> >>

\* JSON.parse followed by a property read
RECURSIVE JsonGet(_, _, _)
JsonGet(blob, key, dflt) ==
  IF Len(blob) = 0 THEN dflt
  ELSE IF Head(blob)[1] = key THEN Head(blob)[2]
  ELSE JsonGet(Tail(blob), key, dflt)

ParseAccess(blob) == JsonGet(blob, "accessToken", NoToken)
ParseRefresh(blob) == JsonGet(blob, "refreshToken", NoRefresh)
ParseUser(blob) == JsonGet(blob, "id", NoUser)

\* btoa / atob of the web backend
Btoa(blob) == << <<"b64", blob>> >>
Atob(enc) == enc[1][2]

\* does the blob have a character btoa rejects
HasNonLatin1(blob) == \E i \in 1..Len(blob) : blob[i][1] = "id" /\ NonLatin1(blob[i][2])

\* storageAdapter.setItem: the stored value after a write that did not throw
SetItemValue(plat, old, value) ==
  IF plat = "web"
    THEN IF HasNonLatin1(value) THEN old ELSE Btoa(value)
    ELSE value

\* storageAdapter.getItem
GetItemValue(plat, raw) ==
  IF Len(raw) = 0 THEN NoBlob
  ELSE IF plat = "web" THEN Atob(raw) ELSE raw

\* a call of the adapter: what was asked, how it settled, what getItem
\* returned, and what the key held before the call
StorageCall(op, key, value, outcome, returned, before) ==
  [op |-> op, key |-> key, value |-> value, outcome |-> outcome,
   returned |-> returned, before |-> before]
NoStorageCall == StorageCall("none", "none", NoBlob, "none", NoBlob, NoBlob)

\* can the backend call throw to the caller of the adapter
StorageOutcomes(plat) == IF plat = "web" THEN {"ok"} ELSE {"ok", "throw"}

\* the AuthState records
SignedOutState ==
  [accessToken |-> NoToken, refreshToken |-> NoRefresh, user |-> NoUser,
   isSignedIn |-> FALSE]
SignedInState(at, rt, u) ==
  [accessToken |-> at, refreshToken |-> rt, user |-> u, isSignedIn |-> TRUE]

RestoredState_NoUser(tokensBlob, userBlob) ==
  SignedInState(ParseAccess(tokensBlob), ParseRefresh(tokensBlob), NoUser)

\* loadStoredAuth: the AuthState restored from the two blobs
RestoredState(tokensBlob, userBlob) ==
  SignedInState(ParseAccess(tokensBlob), ParseRefresh(tokensBlob),
                ParseUser(userBlob))

\* handleLoginCode: the AuthState after a login
LoginState(td, u) == SignedInState(td.access_token, td.refresh_token, u)

\* the mount effect: is the web callback accepted
CallbackAccepted(code, state, storedState) ==
  code # "none" /\ state = storedState

\* ------------------------------------------------------------------------
\* Values of the data client (TableClient)
\* ------------------------------------------------------------------------
DbOps == {"select", "get", "insert", "update", "upsert", "delete"}

\* JSON values: undefined, null, or an object given by its key/value pairs
Undefined == "undefined"
JsonUndefined == [kind |-> "undefined", obj |-> <<>>]
JsonNull == [kind |-> "null", obj |-> <<>>]
JsonObject(obj) == [kind |-> "object", obj |-> obj]

\* a response body: text that res.json() cannot parse, or the JSON it holds
NotJsonBody == [parses |-> FALSE, json |-> JsonUndefined]
JsonBody(j) == [parses |-> TRUE, json |-> j]
Bodies ==
  { NotJsonBody,
    JsonBody(JsonNull),
    JsonBody(JsonObject(<<>>)),
    JsonBody(JsonObject(<< <<"data", "rows">> >>)),
    JsonBody(JsonObject(<< <<"error", "denied">> >>)),
    JsonBody(JsonObject(<< <<"message", "bad input">> >>)),
    JsonBody(JsonObject(<< <<"error", "denied">>,
                           <<"message", "bad input">> >>)) }

HttpStatuses == {200, 201, 404, 500}
StatusText(status) ==
  CASE status = 200 -> "OK"
    [] status = 201 -> "Created"
    [] status = 404 -> "Not Found"
    [] OTHER -> "Internal Server Error"

\* Response.ok
ResOk(status) == status \in 200..299

\* what the fetch promise settles with: a rejection with a TypeError (its
\* message depends on the runtime), or a response
NoResponse ==
  [transport |-> FALSE, failure |-> "", status |-> 0, body |-> NotJsonBody]
TransportFailure(msg) ==
  [transport |-> TRUE, failure |-> msg, status |-> 0, body |-> NotJsonBody]
HttpResponse(status, body) ==
  [transport |-> FALSE, failure |-> "", status |-> status, body |-> body]
Responses ==
  {TransportFailure(m) : m \in {"Network request failed", "Failed to fetch"}}
    \cup {HttpResponse(st, b) : st \in HttpStatuses, b \in Bodies}

\* an error message, by the template that built it
NoMessage == [form |-> "none", status |-> 0, text |-> "", detail |-> ""]
Message(form, status, text, detail) ==
  [form |-> form, status |-> status, text |-> text, detail |-> detail]

\* errors: status 0 is an undefined status, cause is the class of
\* originalError ("none": undefined)
NoError ==
  [type |-> "none", message |-> NoMessage, status |-> 0,
   response |-> JsonUndefined, cause |-> "none"]
DBError(message, status, response, cause) ==
  [type |-> "DBError", message |-> message, status |-> status,
   response |-> response, cause |-> cause]
PlainError(msg) ==
  [type |-> "Error", message |-> Message("plain", 0, "", msg), status |-> 0,
   response |-> JsonUndefined, cause |-> "none"]

\* what an operation settles with
NoDbResult == [kind |-> "pending", data |-> Undefined, error |-> NoError]
DbResolved(data) == [kind |-> "resolved", data |-> data, error |-> NoError]
DbRejected(err) == [kind |-> "rejected", data |-> Undefined, error |-> err]

\* the request an operation passes to fetch
Request(op, token) == [op |-> op, authorization |-> <<"Bearer", token>>]

\* handleRequest, non-ok branch: the message for a body that parsed
ErrorMessage(status, json) ==
  IF json.kind # "object"
    THEN Message("statusLine", status, StatusText(status), "")
    ELSE LET e == JsonGet(json.obj, "error", Undefined)
             m == JsonGet(json.obj, "message", Undefined)
         IN  IF e # Undefined \/ m # Undefined
               THEN Message("detail", status, StatusText(status),
                            IF m # Undefined THEN m ELSE e)
               ELSE Message("failed", status, "", "")

\* handleRequest, catch block, for an error that is not a DBError
CatchError(class, msg) ==
  IF class = "TypeError" /\ msg = "Network request failed"
    THEN DBError(Message("network", 0, "", ""), 0, JsonUndefined, class)
    ELSE DBError(Message("unexpected", 0, "", msg), 0, JsonUndefined, class)

\* handleRequest from `await request` on
handleRequest(resp) ==
  IF resp.transport
    THEN DbRejected(CatchError("TypeError", resp.failure))
  ELSE IF ~ResOk(resp.status)
    THEN IF ~resp.body.parses
           THEN DbRejected(DBError(
                  Message("statusLine", resp.status, StatusText(resp.status), ""),
                  resp.status, JsonUndefined, "none"))
           ELSE DbRejected(DBError(ErrorMessage(resp.status, resp.body.json),
                                   resp.status, resp.body.json, "none"))
  ELSE IF ~resp.body.parses
    THEN DbRejected(CatchError("SyntaxError", "JSON Parse error"))
  ELSE IF resp.body.json.kind # "object"
    THEN DbRejected(CatchError("TypeError", "Cannot read property 'data'"))
  ELSE DbResolved(JsonGet(resp.body.json.obj, "data", Undefined))

\* ------------------------------------------------------------------------
\* Values of BasicDBSDK: schemas, arguments of the operations, requests
\* ------------------------------------------------------------------------
\* a field declaration: its type, and indexed ("undefined": absent, "yes": a
\* value that is not a boolean)
Field(type, indexed) == [type |-> type, indexed |-> indexed]

\* a table: does it have `fields`, and the declarations by field name
Table(fields) == [hasFields |-> TRUE, fields |-> fields]
TableWithoutFields == [hasFields |-> FALSE, fields |-> [f \in {} |-> Field("", "")]]

\* the notes schema of the README
DocumentedSchema ==
  [project_id |-> "YOUR_PROJECT_ID",
   version |-> [isNumber |-> TRUE, val |-> 1],
   tables |-> [t \in {"notes"} |->
     Table([f \in {"title", "tags"} |->
              IF f = "title" THEN Field("string", "true")
              ELSE Field("json", "true")])]]

NoCsResult == [kind |-> "none", value |-> DocumentedSchema]

\* the arguments of an operation: "" is no id, <<>> no value; a value is the
\* key/value pairs of the caller's object
NoId == ""
NoValue == <<>>
NoArgs == [id |-> NoId, value |-> NoValue]
Args(id, value) == [id |-> id, value |-> value]
IdInputs == {"r1", "r2"}
ValueInputs ==
  { << <<"title", "a">> >>,
    << <<"title", "a">>, <<"priority", "4">> >>,
    << <<"id", "mine">>, <<"title", "a">> >> }
ArgInputs(op) ==
  CASE op = "select" -> {Args(i, NoValue) : i \in IdInputs \cup {NoId}}
    [] op \in {"get", "delete"} -> {Args(i, NoValue) : i \in IdInputs}
    [] op = "insert" -> {Args(NoId, v) : v \in ValueInputs}
    [] OTHER -> {Args(i, v) : i \in IdInputs, v \in ValueInputs}
DefaultArgs(op) ==
  CASE op = "select" -> NoArgs
    [] op \in {"get", "delete"} -> Args("r1", NoValue)
    [] op = "insert" -> Args(NoId, << <<"title", "a">> >>)
    [] OTHER -> Args("r1", << <<"title", "a">> >>)
TableInputs == {"notes", "ghosts"}

\* BasicDBSDK.from: the table the returned TableClient is bound to
from(table) == table

\* the default of config.baseUrl
DefaultBaseUrl == "https://api.basic.tech"

\* JSON.stringify({ value })
StringifyValue(value) == << <<"value", value>> >>
NoBody == <<>>

\* fetch without a method sends a GET
DefaultMethod == "GET"

FetchArgs_UpsertPatches(projectId, table, op, args) ==
  LET tablePath == <<DefaultBaseUrl, "account", projectId, "db", table>>
      rowPath == Append(tablePath, args.id)
  IN  IF op \in {"select", "insert"}
        THEN [path |-> tablePath,
              query |-> IF op = "select" /\ args.id # NoId
                          THEN <<"id", args.id>> ELSE <<>>,
              method |-> IF op = "insert" THEN "POST" ELSE DefaultMethod,
              body |-> IF op = "insert" THEN StringifyValue(args.value)
                       ELSE NoBody]
        ELSE [path |-> rowPath, query |-> <<>>,
              method |-> CASE op \in {"update", "upsert"} -> "PATCH"
                           [] op = "delete" -> "DELETE"
                           [] OTHER -> DefaultMethod,
              body |-> IF op \in {"update", "upsert"}
                         THEN StringifyValue(args.value) ELSE NoBody]

\* url, method and body each operation passes to fetch
FetchArgs(projectId, table, op, args) ==
  LET tablePath == <<DefaultBaseUrl, "account", projectId, "db", table>>
      rowPath == Append(tablePath, args.id)
  IN  CASE op = "select" ->
             [path |-> tablePath,
              query |-> IF args.id # NoId THEN <<"id", args.id>> ELSE <<>>,
              method |-> DefaultMethod, body |-> NoBody]
        [] op = "insert" ->
             [path |-> tablePath, query |-> <<>>,
              method |-> "POST", body |-> StringifyValue(args.value)]
        [] op = "update" ->
             [path |-> rowPath, query |-> <<>>,
              method |-> "PATCH", body |-> StringifyValue(args.value)]
        [] op = "upsert" ->
             [path |-> rowPath, query |-> <<>>,
              method |-> "PUT", body |-> StringifyValue(args.value)]
        [] op = "delete" ->
             [path |-> rowPath, query |-> <<>>,
              method |-> "DELETE", body |-> NoBody]
        [] OTHER ->
             [path |-> rowPath, query |-> <<>>,
              method |-> DefaultMethod, body |-> NoBody]

\* what a chain of query methods evaluated to
NoQueryResult == [kind |-> "none", rows |-> <<>>]

\* ------------------------------------------------------------------------
\* State
\* ------------------------------------------------------------------------
VARIABLES
  platform,      \* Platform.OS: "web" or "native"
  now,           \* Date.now(), milliseconds
  url,           \* window.location of the page: callback path, code, state
  sessionState,  \* sessionStorage 'basic_oauth_state'
  navigated,     \* the page was replaced by the authorization page
  mounted,       \* the mount effect of BasicProvider has run
  cb_result,     \* what the mount effect did with the web callback
  store,         \* the backend of storageAdapter, key -> raw value
  authState,     \* useState<AuthState>
  isLoading,     \* useState(true)
  loadingSets,   \* number of setIsLoading calls so far
  prevSession,   \* what the previous run of the app left persisted
  ls_pc, ls_tokens, ls_user, ls_td, ls_outcome,   \* loadStoredAuth
  ft_pc, ft_tokens, ft_td, ft_result,             \* fetchToken, per caller
  ft_afterSignout,  \* the call started after signout() had completed
  ft_overlap,       \* pairs of callers that were inside fetchToken together
  ft_fault,         \* the storage backend threw during the call
  ft_error,         \* the message of the error the call threw
  so_pc, so_result,                               \* signout
  so_calls,         \* how many times signout() was called
  so_snap,          \* store and AuthState when a call made in a row began
  lg_pc, lg_td, lg_user, lg_result,               \* login / handleLoginCode
  lg_prompt,        \* the result type promptAsync() resolved with
  db_pc, db_op,     \* the TableClient operation: position, which one
  db_table,         \* the table its TableClient is bound to
  db_args,          \* its arguments: id, value
  db_sent,          \* the requests it passed to fetch
  db_fetch,         \* url, method and body of those requests
  db_response,      \* what fetch settled with
  db_result,        \* what the operation settled with
  schema,           \* the schema the application wrote
  sdk,              \* new BasicDBSDK({schema, getToken}): done or not
  cs_result,        \* what createSchema(schema) settled with
  q_records,        \* the records the server holds for a query
  q_chain,          \* the methods chained on getAll()
  q_result,         \* what the chain evaluated to
  sa_call           \* the last direct call of storageAdapter and its result

envVars == <<platform, now, url, sessionState, navigated, mounted, cb_result,
             prevSession>>
lsVars == <<ls_pc, ls_tokens, ls_user, ls_td, ls_outcome>>
ftVars == <<ft_pc, ft_tokens, ft_td, ft_result, ft_afterSignout, ft_overlap,
            ft_fault, ft_error>>
soVars == <<so_pc, so_result, so_calls, so_snap>>
lgVars == <<lg_pc, lg_td, lg_user, lg_result, lg_prompt>>
sdkVars == <<schema, sdk, cs_result>>
qVars == <<q_records, q_chain, q_result>>
dbInputs == <<db_op, db_table, db_args, sdkVars, qVars, sa_call>>
dbVars == <<db_pc, db_op, db_table, db_args, db_sent, db_fetch, db_response,
            db_result, sdkVars, qVars, sa_call>>
vars == <<platform, now, url, sessionState, navigated, mounted, cb_result,
          store, authState, isLoading, loadingSets, prevSession,
          ls_pc, ls_tokens, ls_user, ls_td, ls_outcome,
          ft_pc, ft_tokens, ft_td, ft_result, ft_afterSignout, ft_overlap,
          ft_fault, ft_error,
          so_pc, so_result, so_calls, so_snap,
          lg_pc, lg_td, lg_user, lg_result, lg_prompt,
          db_pc, db_op, db_table, db_args, db_sent, db_fetch, db_response,
          db_result, schema, sdk, cs_result, q_records, q_chain, q_result,
          sa_call>>

StateVals == {"s1", "s2"}
NoUrl == [callback |-> FALSE, code |-> "none", state |-> "none"]

\* the pages the provider can be mounted on (web), with the state value the
\* previous page left in sessionStorage
WebPages ==
  { <<NoUrl, "none">>,
    <<[callback |-> TRUE, code |-> "c1", state |-> "s1"], "s1">>,
    <<[callback |-> TRUE, code |-> "c1", state |-> "s2"], "s1">>,
    <<[callback |-> TRUE, code |-> "c1", state |-> "none"], "none">>,
    <<[callback |-> TRUE, code |-> "none", state |-> "s1"], "s1">> }

\* what an earlier run left in the store: nothing, the pair and the user info
\* of a completed login (access token still good, or at its expiry margin),
\* or the pair alone of a login that failed after storeTokens
PrevSessions ==
  { [td |-> NoTokenData, user |-> NoUser],
    [td |-> TokenData(1, "alice", NowStart), user |-> "alice"],
    [td |-> TokenData(1, "alice", NowStart - TickMs), user |-> "alice"],
    [td |-> TokenData(1, "alice", NowStart - TickMs), user |-> NoUser] }

PersistedStore(plat, prev) ==
  [k \in Keys |->
     IF k = TOKEN_STORAGE_KEY
       THEN IF prev.td = NoTokenData THEN NoBlob
            ELSE SetItemValue(plat, NoBlob, StringifyTokens(prev.td))
       ELSE IF prev.user = NoUser THEN NoBlob
            ELSE SetItemValue(plat, NoBlob, StringifyUser(prev.user))]

\* the snapshot before any call was made in a row
NoSnapshot == [store |-> [k \in Keys |-> NoBlob], authState |-> SignedOutState]

InitAuth ==
  /\ platform \in {"web", "native"}
  /\ now = NowStart
  /\ \E pg \in WebPages :
       /\ url = (IF platform = "web" THEN pg[1] ELSE NoUrl)
       /\ sessionState = (IF platform = "web" THEN pg[2] ELSE "none")
  /\ navigated = FALSE
  /\ mounted = FALSE
  /\ cb_result = "none"
  /\ prevSession \in PrevSessions
  /\ store = PersistedStore(platform, prevSession)
  /\ authState = SignedOutState
  /\ isLoading = TRUE
  /\ loadingSets = 0
  /\ ls_pc = "init" /\ ls_tokens = NoBlob /\ ls_user = NoBlob
  /\ ls_td = NoTokenData /\ ls_outcome = "none"
  /\ ft_pc = [i \in Callers |-> "idle"]
  /\ ft_tokens = [i \in Callers |-> NoBlob]
  /\ ft_td = [i \in Callers |-> NoTokenData]
  /\ ft_result = [i \in Callers |-> NoResult]
  /\ ft_afterSignout = [i \in Callers |-> FALSE]
  /\ ft_overlap = {}
  /\ ft_fault = [i \in Callers |-> FALSE]
  /\ ft_error = [i \in Callers |-> "none"]
  /\ so_pc = "idle" /\ so_result = "pending"
  /\ so_calls = 0 /\ so_snap = NoSnapshot
  /\ lg_pc = "idle" /\ lg_td = NoTokenData /\ lg_user = NoUser
  /\ lg_result = "pending"
  /\ lg_prompt = "none"
  /\ db_pc = "idle" /\ db_op = "none" /\ db_sent = <<>>
  /\ db_response = NoResponse /\ db_result = NoDbResult

\* no operation of the data client has been called yet
InitCall ==
  /\ db_table = "none" /\ db_args = NoArgs /\ db_fetch = <<>>
  /\ sa_call = NoStorageCall

\* the provider has rendered: its db was constructed with the schema
InitSdk ==
  /\ schema = DocumentedSchema
  /\ sdk = "constructed"
  /\ cs_result = NoCsResult

InitNoQuery ==
  /\ q_records = <<>> /\ q_chain = <<>> /\ q_result = NoQueryResult

Init == InitAuth /\ InitCall /\ InitSdk /\ InitNoQuery

Running == mounted /\ ~navigated

\* the calls the application has made so far
OpsStarted ==
  (IF db_pc = "idle" THEN Cardinality({i \in Callers : ft_pc[i] # "idle"})
   ELSE 1)
  + (IF so_pc # "idle" THEN 1 ELSE 0)
  + (IF platform = "native" /\ lg_pc # "idle" THEN 1 ELSE 0)
CanCall == Running /\ OpsStarted < MaxOps

\* no invocation is suspended at an await
Quiescent ==
  /\ ls_pc = "done"
  /\ \A i \in Callers : ft_pc[i] \in {"idle", "done"}
  /\ so_pc \in {"idle", "done"}
  /\ lg_pc \in {"idle", "done"}
  /\ db_pc \in {"idle", "done"}

\* ------------------------------------------------------------------------
\* Storage and server steps shared by the operations
\* ------------------------------------------------------------------------

\* storeTokens, when the backend did not throw
StoreTokens(td) ==
  store' = [store EXCEPT ![TOKEN_STORAGE_KEY] =
              SetItemValue(platform, @, StringifyTokens(td))]

\* storeUserInfo, when the backend did not throw
StoreUserInfo(u) ==
  store' = [store EXCEPT ![USER_INFO_STORAGE_KEY] =
              SetItemValue(platform, @, StringifyUser(u))]

\* storageAdapter.deleteItem, when the backend did not throw
DeleteItem(k) == store' = [store EXCEPT ![k] = NoBlob]

\* the token endpoint issues every pair once; a pair is named after the
\* request that obtained it: 1 the previous run, 1 + i the refresh of caller
\* i, then the refresh of loadStoredAuth and the code exchange of the login
LoadReq == NumCallers + 2
LoginReq == NumCallers + 3
CallerReq(i) == 1 + i

\* the token endpoint answers a refresh of the persisted pair
RefreshedTokenData(req, tokensBlob) ==
  TokenData(req, ParseAccess(tokensBlob).sub, now)

\* ------------------------------------------------------------------------
\* Environment
\* ------------------------------------------------------------------------
\* the clock advances by one step; every invocation takes far less than a
\* step, so the clock is read as constant while one is suspended
Tick ==
  /\ Running /\ Quiescent
  /\ now < NowStart + MaxTicks * TickMs
  /\ now' = now + TickMs
  /\ UNCHANGED <<platform, url, sessionState, navigated, mounted, cb_result,
                 store, authState, isLoading, loadingSets, prevSession>>
  /\ UNCHANGED <<lsVars, ftVars, soVars, lgVars>>
  /\ UNCHANGED dbVars

\* ------------------------------------------------------------------------
\* The mount effect of BasicProvider
\* ------------------------------------------------------------------------

\* useEffect(() => { loadStoredAuth(); if (web && callback) ... }, []):
\* loadStoredAuth runs up to its first await, then the callback is examined
\* and handleLoginCode runs up to its first await (the code exchange)
Mount ==
  /\ ~mounted
  /\ mounted' = TRUE
  /\ ls_pc' = "readTokens"
  /\ IF platform = "web" /\ url.callback
       THEN IF CallbackAccepted(url.code, url.state, sessionState)
              THEN /\ lg_pc' = "exchange"
                   /\ cb_result' = "exchanging"
              ELSE /\ lg_pc' = lg_pc
                   /\ cb_result' = "ignored"
       ELSE /\ lg_pc' = lg_pc
            /\ cb_result' = cb_result
  /\ UNCHANGED <<platform, now, url, sessionState, navigated, store, authState,
                 isLoading, loadingSets, prevSession>>
  /\ UNCHANGED <<ls_tokens, ls_user, ls_td, ls_outcome>>
  /\ UNCHANGED <<ftVars, soVars, lg_td, lg_user, lg_result, lg_prompt>>
  /\ UNCHANGED dbVars

\* ------------------------------------------------------------------------
\* loadStoredAuth (initialize)
\* ------------------------------------------------------------------------

LoadFinally_InTry(outcome) ==
  /\ ls_pc' = "done"
  /\ ls_outcome' = outcome
  /\ IF outcome \in {"readFailed", "refreshFailed", "storeFailed"}
       THEN UNCHANGED <<isLoading, loadingSets>>
       ELSE /\ isLoading' = FALSE
            /\ loadingSets' = loadingSets + 1

\* the catch (log only) and the finally of loadStoredAuth
LoadFinally(outcome) ==
  /\ ls_pc' = "done"
  /\ ls_outcome' = outcome
  /\ isLoading' = FALSE
  /\ loadingSets' = loadingSets + 1

\* await storageAdapter.getItem(TOKEN_STORAGE_KEY)
LS_ReadTokens ==
  /\ Running /\ ls_pc = "readTokens"
  /\ \E o \in StorageOutcomes(platform) :
       IF o = "ok"
         THEN /\ ls_tokens' = GetItemValue(platform, store[TOKEN_STORAGE_KEY])
              /\ ls_pc' = "readUser"
              /\ UNCHANGED <<ls_outcome, isLoading, loadingSets>>
         ELSE /\ LoadFinally("readFailed")
              /\ UNCHANGED ls_tokens
  /\ UNCHANGED <<envVars, store, authState, ls_user, ls_td>>
  /\ UNCHANGED <<ftVars, soVars, lgVars>>
  /\ UNCHANGED dbVars

\* await storageAdapter.getItem(USER_INFO_STORAGE_KEY), then the test of
\* both blobs and the start of verifyToken
LS_ReadUser ==
  /\ Running /\ ls_pc = "readUser"
  /\ \E o \in StorageOutcomes(platform) :
       IF o = "ok"
         THEN LET u == GetItemValue(platform, store[USER_INFO_STORAGE_KEY])
              IN  /\ ls_user' = u
                  /\ IF Len(ls_tokens) # 0 /\ Len(u) # 0
                       THEN /\ ls_pc' = "verify"
                            /\ UNCHANGED <<ls_outcome, isLoading, loadingSets>>
                       ELSE LoadFinally("nothing")
         ELSE /\ LoadFinally("readFailed")
              /\ UNCHANGED ls_user
  /\ UNCHANGED <<envVars, store, authState, ls_tokens, ls_td>>
  /\ UNCHANGED <<ftVars, soVars, lgVars>>
  /\ UNCHANGED dbVars

\* verifyToken answered: restore the session, or start refreshAccessToken
LS_VerifyResp ==
  /\ Running /\ ls_pc = "verify"
  /\ \E ok \in BOOLEAN :
       IF ok
         THEN /\ authState' = RestoredState(ls_tokens, ls_user)
              /\ LoadFinally("valid")
         ELSE /\ ls_pc' = "refresh"
              /\ UNCHANGED <<authState, ls_outcome, isLoading, loadingSets>>
  /\ UNCHANGED <<envVars, store, ls_tokens, ls_user, ls_td>>
  /\ UNCHANGED <<ftVars, soVars, lgVars>>
  /\ UNCHANGED dbVars

\* the token endpoint answered the refresh started by loadStoredAuth
LS_RefreshResp ==
  /\ Running /\ ls_pc = "refresh"
  /\ \E ok \in BOOLEAN :
       IF ok
         THEN /\ ls_td' = RefreshedTokenData(LoadReq, ls_tokens)
              /\ ls_pc' = "storeTokens"
              /\ UNCHANGED <<ls_outcome, isLoading, loadingSets>>
         ELSE /\ LoadFinally("refreshFailed")
              /\ UNCHANGED ls_td
  /\ UNCHANGED <<envVars, store, authState, ls_tokens, ls_user>>
  /\ UNCHANGED <<ftVars, soVars, lgVars>>
  /\ UNCHANGED dbVars

\* await storeTokens(tokenData) of the refresh, then return into
\* loadStoredAuth, which does nothing with the result
LS_StoreTokens ==
  /\ Running /\ ls_pc = "storeTokens"
  /\ \E o \in StorageOutcomes(platform) :
       IF o = "ok"
         THEN /\ StoreTokens(ls_td)
              /\ LoadFinally("refreshed")
         ELSE /\ LoadFinally("storeFailed")
              /\ UNCHANGED store
  /\ UNCHANGED <<envVars, authState, ls_tokens, ls_user, ls_td>>
  /\ UNCHANGED <<ftVars, soVars, lgVars>>
  /\ UNCHANGED dbVars

\* ------------------------------------------------------------------------
\* fetchToken (getValidToken) and the refreshAccessToken it calls
\* ------------------------------------------------------------------------
InFetch(pcs) == {i \in Callers : pcs[i] \notin {"idle", "done"}}

\* a caller invokes fetchToken: runs up to await storageAdapter.getItem
FT_Call(i) ==
  /\ ft_pc' = [ft_pc EXCEPT ![i] = "read"]
  /\ ft_afterSignout' = [ft_afterSignout EXCEPT ![i] = (so_pc = "done")]
  /\ ft_overlap' = ft_overlap \cup {<<j, i>> : j \in InFetch(ft_pc)}

\* the application calls getValidToken
FT_Start(i) ==
  /\ CanCall /\ db_pc = "idle" /\ ft_pc[i] = "idle"
  /\ \A j \in Callers : j < i => ft_pc[j] # "idle"
  /\ FT_Call(i)
  /\ UNCHANGED <<envVars, store, authState, isLoading, loadingSets>>
  /\ UNCHANGED <<ft_tokens, ft_td, ft_result, ft_fault, ft_error>>
  /\ UNCHANGED <<lsVars, soVars, lgVars>>
  /\ UNCHANGED dbVars

FT_Finish(i, result) ==
  /\ ft_pc' = [ft_pc EXCEPT ![i] = "done"]
  /\ ft_result' = [ft_result EXCEPT ![i] = result]

\* the stored pair was read: throw when there is none, return the access
\* token when it is not expired, otherwise call refreshAccessToken, which
\* sends its request
FT_Read(i) ==
  /\ Running /\ ft_pc[i] = "read"
  /\ \E o \in StorageOutcomes(platform) :
       /\ ft_fault' = [ft_fault EXCEPT ![i] = (o # "ok")]
       /\ IF o = "ok"
         THEN LET storedTokens ==
                    GetItemValue(platform, store[TOKEN_STORAGE_KEY])
              IN  IF Len(storedTokens) = 0
                    THEN /\ FT_Finish(i, Rejected)
                         /\ UNCHANGED ft_tokens
                    ELSE IF ~isTokenExpired(ParseAccess(storedTokens), now)
                      THEN /\ FT_Finish(i, Resolved(ParseAccess(storedTokens)))
                           /\ UNCHANGED ft_tokens
                      ELSE /\ ft_pc' = [ft_pc EXCEPT ![i] = "refresh"]
                           /\ ft_tokens' = [ft_tokens EXCEPT ![i] = storedTokens]
                           /\ UNCHANGED ft_result
         ELSE /\ FT_Finish(i, Rejected)
              /\ UNCHANGED ft_tokens
  /\ ft_error' = [ft_error EXCEPT ![i] =
                    IF ft_result'[i].kind # "rejected" THEN @
                    ELSE IF ft_fault'[i] THEN "storage backend error"
                    ELSE "No tokens found - user not signed in"]
  /\ UNCHANGED <<envVars, store, authState, isLoading, loadingSets>>
  /\ UNCHANGED <<ft_td, ft_afterSignout, ft_overlap>>
  /\ UNCHANGED <<lsVars, soVars, lgVars>>
  /\ UNCHANGED dbVars

\* the token endpoint answered the refresh of caller i: on failure
\* refreshAccessToken and fetchToken log and rethrow
FT_RefreshResp(i) ==
  /\ Running /\ ft_pc[i] = "refresh"
  /\ \E ok \in BOOLEAN :
       IF ok
         THEN /\ ft_td' = [ft_td EXCEPT ![i] =
                          RefreshedTokenData(CallerReq(i), ft_tokens[i])]
              /\ ft_pc' = [ft_pc EXCEPT ![i] = "storeTokens"]
              /\ UNCHANGED ft_result
         ELSE /\ FT_Finish(i, Rejected)
              /\ UNCHANGED ft_td
  /\ ft_error' = [ft_error EXCEPT ![i] =
                    IF ft_result'[i].kind # "rejected" THEN @
                    ELSE "Failed to refresh token"]
  /\ UNCHANGED <<envVars, store, authState, isLoading, loadingSets>>
  /\ UNCHANGED <<ft_tokens, ft_afterSignout, ft_overlap, ft_fault>>
  /\ UNCHANGED <<lsVars, soVars, lgVars>>
  /\ UNCHANGED dbVars

FT_StoreTokens_NoPersist(i) ==
  /\ Running /\ ft_pc[i] = "storeTokens"
  /\ FT_Finish(i, Resolved(ft_td[i].access_token))
  /\ UNCHANGED <<envVars, store, authState, isLoading, loadingSets>>
  /\ UNCHANGED <<ft_tokens, ft_td, ft_afterSignout, ft_overlap, ft_fault,
                 ft_error>>
  /\ UNCHANGED <<lsVars, soVars, lgVars>>
  /\ UNCHANGED dbVars

\* await storeTokens(tokenData), then return tokenData.access_token
FT_StoreTokens(i) ==
  /\ Running /\ ft_pc[i] = "storeTokens"
  /\ \E o \in StorageOutcomes(platform) :
       /\ ft_fault' = [ft_fault EXCEPT ![i] = (o # "ok")]
       /\ IF o = "ok"
         THEN /\ StoreTokens(ft_td[i])
              /\ FT_Finish(i, Resolved(ft_td[i].access_token))
         ELSE /\ FT_Finish(i, Rejected)
              /\ UNCHANGED store
  /\ ft_error' = [ft_error EXCEPT ![i] =
                    IF ft_result'[i].kind # "rejected" THEN @
                    ELSE "storage backend error"]
  /\ UNCHANGED <<envVars, authState, isLoading, loadingSets>>
  /\ UNCHANGED <<ft_tokens, ft_td, ft_afterSignout, ft_overlap>>
  /\ UNCHANGED <<lsVars, soVars, lgVars>>
  /\ UNCHANGED dbVars

\* ------------------------------------------------------------------------
\* signout
\* ------------------------------------------------------------------------

\* the application calls signout(): runs up to the first deleteItem
SO_Start ==
  /\ CanCall /\ so_pc = "idle"
  /\ so_pc' = "del1"
  /\ so_calls' = so_calls + 1
  /\ UNCHANGED <<envVars, store, authState, isLoading, loadingSets, so_result,
                 so_snap>>
  /\ UNCHANGED <<lsVars, ftVars, lgVars>>
  /\ UNCHANGED dbVars

\* await storageAdapter.deleteItem(TOKEN_STORAGE_KEY); a throw is caught
\* and logged, and signout resolves
SO_Del1 ==
  /\ Running /\ so_pc = "del1"
  /\ \E o \in StorageOutcomes(platform) :
       IF o = "ok"
         THEN /\ DeleteItem(TOKEN_STORAGE_KEY)
              /\ so_pc' = "del2"
              /\ UNCHANGED so_result
         ELSE /\ so_pc' = "done"
              /\ so_result' = "swallowed"
              /\ UNCHANGED store
  /\ UNCHANGED <<envVars, authState, isLoading, loadingSets, so_calls, so_snap>>
  /\ UNCHANGED <<lsVars, ftVars, lgVars>>
  /\ UNCHANGED dbVars

\* await storageAdapter.deleteItem(USER_INFO_STORAGE_KEY), then setAuthState
SO_Del2 ==
  /\ Running /\ so_pc = "del2"
  /\ \E o \in StorageOutcomes(platform) :
       IF o = "ok"
         THEN /\ DeleteItem(USER_INFO_STORAGE_KEY)
              /\ authState' = SignedOutState
              /\ so_result' = "resolved"
         ELSE /\ so_result' = "swallowed"
              /\ UNCHANGED <<store, authState>>
  /\ so_pc' = "done"
  /\ UNCHANGED <<envVars, isLoading, loadingSets, so_calls, so_snap>>
  /\ UNCHANGED <<lsVars, ftVars, lgVars>>
  /\ UNCHANGED dbVars

\* ------------------------------------------------------------------------
\* login and handleLoginCode
\* ------------------------------------------------------------------------

\* login() on the web: AuthWebHandler stores a fresh state value and the
\* page is replaced by the authorization page
WebLogin ==
  /\ Running /\ platform = "web"
  /\ \E st \in StateVals : sessionState' = st
  /\ navigated' = TRUE
  /\ UNCHANGED <<platform, now, url, mounted, cb_result, prevSession>>
  /\ UNCHANGED <<store, authState, isLoading, loadingSets>>
  /\ UNCHANGED <<lsVars, ftVars, soVars, lgVars>>
  /\ UNCHANGED dbVars

\* login() on native: runs up to await promptAsync()
LG_Start ==
  /\ CanCall /\ platform = "native" /\ lg_pc = "idle"
  /\ lg_pc' = "prompt"
  /\ UNCHANGED <<envVars, store, authState, isLoading, loadingSets>>
  /\ UNCHANGED <<lg_td, lg_user, lg_result, lg_prompt>>
  /\ UNCHANGED <<lsVars, ftVars, soVars>>
  /\ UNCHANGED dbVars

LG_Prompt_DismissThrows ==
  /\ Running /\ lg_pc = "prompt"
  /\ \E type \in {"success", "dismiss"} :
       /\ lg_prompt' = type
       /\ IF type = "success"
         THEN /\ lg_pc' = "exchange"
              /\ UNCHANGED lg_result
         ELSE /\ lg_pc' = "catchDel1"
              /\ UNCHANGED lg_result
  /\ UNCHANGED <<envVars, store, authState, isLoading, loadingSets>>
  /\ UNCHANGED <<lg_td, lg_user>>
  /\ UNCHANGED <<lsVars, ftVars, soVars>>
  /\ UNCHANGED dbVars

\* promptAsync() resolved: a success starts handleLoginCode (the code
\* exchange is sent), any other result ends login without an error
LG_Prompt ==
  /\ Running /\ lg_pc = "prompt"
  /\ \E type \in {"success", "dismiss"} :
       /\ lg_prompt' = type
       /\ IF type = "success"
         THEN /\ lg_pc' = "exchange"
              /\ UNCHANGED lg_result
         ELSE /\ lg_pc' = "done"
              /\ lg_result' = "resolved"
  /\ UNCHANGED <<envVars, store, authState, isLoading, loadingSets>>
  /\ UNCHANGED <<lg_td, lg_user>>
  /\ UNCHANGED <<lsVars, ftVars, soVars>>
  /\ UNCHANGED dbVars

\* handleLoginCode threw: login() on native catches it and calls signout();
\* on the web nothing awaits the promise of the mount effect
LoginThrow ==
  IF platform = "native"
    THEN /\ lg_pc' = "catchDel1"
         /\ UNCHANGED lg_result
    ELSE /\ lg_pc' = "done"
         /\ lg_result' = "unhandled"

\* the token endpoint answered the authorization_code exchange
HL_ExchangeResp ==
  /\ Running /\ lg_pc = "exchange"
  /\ \E ok \in BOOLEAN, u \in Users :
       IF ok
         THEN /\ lg_td' = TokenData(LoginReq, u, now)
              /\ lg_pc' = "storeTokens"
              /\ UNCHANGED lg_result
         ELSE /\ LoginThrow
              /\ UNCHANGED lg_td
  /\ UNCHANGED <<envVars, store, authState, isLoading, loadingSets, lg_user,
                 lg_prompt>>
  /\ UNCHANGED <<lsVars, ftVars, soVars>>
  /\ UNCHANGED dbVars

\* await storeTokens(tokenData), then the user-info request is sent
HL_StoreTokens ==
  /\ Running /\ lg_pc = "storeTokens"
  /\ \E o \in StorageOutcomes(platform) :
       IF o = "ok"
         THEN /\ StoreTokens(lg_td)
              /\ lg_pc' = "userinfo"
              /\ UNCHANGED lg_result
         ELSE /\ LoginThrow
              /\ UNCHANGED store
  /\ UNCHANGED <<envVars, authState, isLoading, loadingSets, lg_td, lg_user,
                 lg_prompt>>
  /\ UNCHANGED <<lsVars, ftVars, soVars>>
  /\ UNCHANGED dbVars

\* the user-info endpoint answered
HL_UserInfoResp ==
  /\ Running /\ lg_pc = "userinfo"
  /\ \E ok \in BOOLEAN :
       IF ok
         THEN /\ lg_user' = lg_td.access_token.sub
              /\ lg_pc' = "storeUser"
              /\ UNCHANGED lg_result
         ELSE /\ LoginThrow
              /\ UNCHANGED lg_user
  /\ UNCHANGED <<envVars, store, authState, isLoading, loadingSets, lg_td,
                 lg_prompt>>
  /\ UNCHANGED <<lsVars, ftVars, soVars>>
  /\ UNCHANGED dbVars

\* await storeUserInfo(userInfo), then setAuthState of the whole record
HL_StoreUser ==
  /\ Running /\ lg_pc = "storeUser"
  /\ \E o \in StorageOutcomes(platform) :
       IF o = "ok"
         THEN /\ StoreUserInfo(lg_user)
              /\ authState' = LoginState(lg_td, lg_user)
              /\ lg_pc' = "done"
              /\ lg_result' = "resolved"
         ELSE /\ LoginThrow
              /\ UNCHANGED <<store, authState>>
  /\ UNCHANGED <<envVars, isLoading, loadingSets, lg_td, lg_user,
                 lg_prompt>>
  /\ UNCHANGED <<lsVars, ftVars, soVars>>
  /\ UNCHANGED dbVars

\* catch of login(): await signout(), first deleteItem; signout swallows a
\* throw of the backend, and login rethrows the error of handleLoginCode
LG_CatchDel1 ==
  /\ Running /\ lg_pc = "catchDel1"
  /\ \E o \in StorageOutcomes(platform) :
       IF o = "ok"
         THEN /\ DeleteItem(TOKEN_STORAGE_KEY)
              /\ lg_pc' = "catchDel2"
              /\ UNCHANGED lg_result
         ELSE /\ lg_pc' = "done"
              /\ lg_result' = "rejected"
              /\ UNCHANGED store
  /\ UNCHANGED <<envVars, authState, isLoading, loadingSets, lg_td, lg_user,
                 lg_prompt>>
  /\ UNCHANGED <<lsVars, ftVars, soVars>>
  /\ UNCHANGED dbVars

\* catch of login(): second deleteItem of signout and its setAuthState,
\* then throw error
LG_CatchDel2 ==
  /\ Running /\ lg_pc = "catchDel2"
  /\ \E o \in StorageOutcomes(platform) :
       IF o = "ok"
         THEN /\ DeleteItem(USER_INFO_STORAGE_KEY)
              /\ authState' = SignedOutState
         ELSE UNCHANGED <<store, authState>>
  /\ lg_pc' = "done"
  /\ lg_result' = "rejected"
  /\ UNCHANGED <<envVars, isLoading, loadingSets, lg_td, lg_user,
                 lg_prompt>>
  /\ UNCHANGED <<lsVars, ftVars, soVars>>
  /\ UNCHANGED dbVars

\* ------------------------------------------------------------------------
\* Specification
\* ------------------------------------------------------------------------
Next ==
  \/ Mount
  \/ Tick
  \/ LS_ReadTokens
  \/ LS_ReadUser
  \/ LS_VerifyResp
  \/ LS_RefreshResp
  \/ LS_StoreTokens
  \/ \E i \in Callers : FT_Start(i)
  \/ \E i \in Callers : FT_Read(i)
  \/ \E i \in Callers : FT_RefreshResp(i)
  \/ \E i \in Callers : FT_StoreTokens(i)
  \/ SO_Start
  \/ SO_Del1
  \/ SO_Del2
  \/ WebLogin
  \/ LG_Start
  \/ LG_Prompt
  \/ HL_ExchangeResp
  \/ HL_StoreTokens
  \/ HL_UserInfoResp
  \/ HL_StoreUser
  \/ LG_CatchDel1
  \/ LG_CatchDel2

Spec == Init /\ [][Next]_vars

\* ------------------------------------------------------------------------
\* Well-formedness of the state
\* ------------------------------------------------------------------------
TypeOK ==
  /\ platform \in {"web", "native"}
  /\ now \in NowStart..(NowStart + MaxTicks * TickMs)
  /\ mounted \in BOOLEAN /\ navigated \in BOOLEAN /\ isLoading \in BOOLEAN
  /\ cb_result \in {"none", "exchanging", "ignored"}
  /\ authState.isSignedIn \in BOOLEAN
  /\ ls_pc \in {"init", "readTokens", "readUser", "verify", "refresh",
                "storeTokens", "done"}
  /\ ls_outcome \in {"none", "nothing", "valid", "refreshed", "refreshFailed",
                     "storeFailed", "readFailed"}
  /\ \A i \in Callers :
       /\ ft_pc[i] \in {"idle", "read", "refresh", "storeTokens", "done"}
       /\ ft_result[i].kind \in {"pending", "resolved", "rejected"}
  /\ so_pc \in {"idle", "del1", "del2", "done"}
  /\ so_result \in {"pending", "resolved", "swallowed"}
  /\ so_calls \in 0..MaxSignouts
  /\ sa_call.op \in {"none", "setItem", "getItem", "deleteItem"}
  /\ sa_call.outcome \in {"none", "resolved", "rejected"}
  /\ lg_pc \in {"idle", "prompt", "exchange", "storeTokens", "userinfo",
                "storeUser", "catchDel1", "catchDel2", "done"}
  /\ lg_result \in {"pending", "resolved", "rejected", "unhandled"}
  /\ db_pc \in {"idle", "headers", "logHeaders", "request", "done"}
  /\ db_op \in DbOps \cup {"none"}
  /\ db_table \in TableInputs \cup {"none"}
  /\ Len(db_fetch) = Len(db_sent)
  /\ sdk \in {"none", "constructed"}
  /\ Len(db_sent) <= 1
  /\ db_result.kind \in {"pending", "resolved", "rejected"}
  /\ db_result.error.type \in {"none", "DBError", "Error"}

\* ------------------------------------------------------------------------
\* Properties
\* ------------------------------------------------------------------------
StoreEmpty(st) == \A k \in Keys : Len(GetItemValue(platform, st[k])) = 0

\* fetchToken sends a refresh request exactly when it found the pair it read
\* expired, and keeps that pair
SawExpired(i) == Len(ft_tokens[i]) # 0
RefreshesSent(S) == Cardinality({k \in S : SawExpired(k)})

\* C1: callers of getValidToken() that are inside the call together and
\* find the same persisted access token within 5 minutes of its expiry cause
\* exactly one request to the token endpoint, and those that get a token get
\* the same refreshed access token.
C1_SingleExchange ==
  \A p \in ft_overlap :
    (SawExpired(p[1]) /\ ft_tokens[p[1]] = ft_tokens[p[2]]) =>
      /\ RefreshesSent({p[1], p[2]}) = 1
      /\ (ft_result[p[1]].kind = "resolved" /\ ft_result[p[2]].kind = "resolved")
           => ft_result[p[1]] = ft_result[p[2]]

\* the refresh_token exchanges that have been sent and not yet answered
RefreshInFlight ==
  (IF ls_pc = "refresh" THEN 1 ELSE 0)
  + Cardinality({i \in Callers : ft_pc[i] = "refresh"})

\* C2: in every reachable state at most one refresh_token exchange is in
\* flight, counting the refresh of initialize() and those of the
\* getValidToken() callers.
C2_AtMostOneInFlight == RefreshInFlight <= 1

\* C3: once signout() has completed (and no login was made), neither secret
\* is retrievable from the store and a getValidToken() call started after it
\* fails.
C3_AfterSignout ==
  (so_pc = "done" /\ lg_pc = "idle") =>
    /\ StoreEmpty(store)
    /\ \A i \in Callers :
         (ft_afterSignout[i] /\ ft_pc[i] = "done") => ft_result[i] = Rejected

\* C4: when the refresh started by getValidToken() fails, the caller gets an
\* error and, by the time it does, the session is signed out: AuthState is
\* SignedOut and the persisted secrets are cleared.
C4_RefreshFailureSignsOut ==
  [][\A i \in Callers :
       (ft_pc[i] = "refresh" /\ ft_pc'[i] = "done") =>
         /\ ft_result'[i] = Rejected
         /\ authState' = SignedOutState
         /\ StoreEmpty(store')]_vars

\* C5: when initialize() finds the access token invalid and its refresh
\* succeeds, it ends in SignedIn with the new tokens in AuthState.
C5_RefreshedSignedIn ==
  [][(ls_pc = "storeTokens" /\ ls_pc' = "done" /\ ls_outcome' = "refreshed") =>
       authState' = SignedInState(ls_td.access_token, ls_td.refresh_token,
                                  ParseUser(ls_user))]_vars

\* C6: when initialize() finds the access token invalid and the refresh
\* fails too, it ends in SignedOut with both persisted secrets cleared.
C6_RefreshFailedCleared ==
  [][(ls_pc = "refresh" /\ ls_pc' = "done") =>
       /\ authState' = SignedOutState
       /\ StoreEmpty(store')]_vars

\* no call of the application has been made: only initialize() has run
OnlyInitialize ==
  /\ so_pc = "idle" /\ lg_pc = "idle"
  /\ \A i \in Callers : ft_pc[i] = "idle"

\* C7: after a restart, initialize() whose remote validation succeeds ends in
\* SignedIn with exactly the access token, refresh token and user info the
\* earlier login persisted; when no pair or no user info is persisted it
\* ends in SignedOut.
C7_RestartRoundTrip ==
  (ls_pc = "done" /\ OnlyInitialize) =>
    /\ ls_outcome = "valid" =>
         authState = SignedInState(prevSession.td.access_token,
                                   prevSession.td.refresh_token,
                                   prevSession.user)
    /\ (prevSession.td = NoTokenData \/ prevSession.user = NoUser) =>
         /\ authState = SignedOutState
         /\ ls_outcome \in {"nothing", "readFailed"}

C7_Witness ==
  /\ ls_pc = "done" /\ ls_outcome = "valid" /\ OnlyInitialize
  /\ authState.isSignedIn /\ authState.user = "alice"
  /\ platform = "web"

\* C8: initialize() sets isLoading to false exactly once, whatever its
\* outcome, and isLoading is true before and never true afterwards.
C8_LoadingOnce ==
  /\ ls_pc = "done" => (~isLoading /\ loadingSets = 1)
  /\ ls_pc # "done" => (isLoading /\ loadingSets = 0)

C8_Witness ==
  ls_pc = "done" /\ ls_outcome = "refreshFailed" /\ ~isLoading

\* the page is a callback whose state parameter differs from the stored one
StateMismatch == url.callback /\ url.code # "none" /\ url.state # sessionState

\* C9: a login callback whose state parameter does not match the stored state
\* value is rejected with an error, and no code exchange is started for it.
C9_MismatchRejected ==
  (mounted /\ ~navigated /\ StateMismatch) =>
    (cb_result = "rejected" /\ lg_pc = "idle")

\* C10: when login fails at the code exchange, the user-info fetch or a
\* store write, the failure is delivered to a caller as an error and
\* AuthState is left unchanged or SignedOut.
C10_LoginFailureSurfaces ==
  [][(lg_pc # "done" /\ lg_pc' = "done" /\ lg_result' # "resolved") =>
       /\ lg_result' = "rejected"
       /\ authState' \in {authState, SignedOutState}]_vars

\* C11: every authentication failure reaches the caller of the operation as
\* a rejection: a signout whose storage delete failed, a login whose code
\* exchange or user-info fetch failed, and a callback with a mismatching
\* state all end rejected, none is only logged or dropped.
C11_NoFailureSwallowed ==
  /\ so_result # "swallowed"
  /\ lg_result # "unhandled"
  /\ (mounted /\ StateMismatch) => cb_result = "rejected"
  /\ \A i \in Callers :
       (ft_pc[i] = "done" /\ SawExpired(i) /\ ft_td[i] = NoTokenData)
         => ft_result[i] = Rejected

\* C12: when the native login prompt is dismissed, login() resolves without
\* an error, no code exchange is sent, and the step leaves AuthState and the
\* persisted secrets as they were.
C12_DismissIsNoError ==
  [][(lg_prompt' = "dismiss") =>
       /\ lg_pc' = "done"
       /\ lg_result' = "resolved"
       /\ lg_td' = NoTokenData
       /\ (lg_prompt # "dismiss" => (authState' = authState /\ store' = store))
    ]_vars

C12_Witness ==
  /\ lg_prompt = "dismiss" /\ lg_pc = "done" /\ lg_result = "resolved"
  /\ authState.isSignedIn /\ ~StoreEmpty(store)

\* C13: when the persisted access token expires more than 5 minutes from
\* now and the pair can be read, getValidToken() returns that token at once:
\* no refresh request is sent and the step leaves the persisted secrets and
\* AuthState unchanged.
C13_FastPath ==
  [][\A i \in Callers :
       LET stored == GetItemValue(platform, store[TOKEN_STORAGE_KEY])
           t == ParseAccess(stored)
       IN  (/\ ft_pc[i] = "read" /\ ft_pc'[i] # "read" /\ ~ft_fault'[i]
            /\ Len(stored) # 0 /\ t.jwt
            /\ t.exp * 1000 - now > 5 * 60 * 1000)
             => /\ ft_pc'[i] = "done"
                /\ ft_result'[i] = Resolved(t)
                /\ ft_tokens'[i] = NoBlob
                /\ store' = store
                /\ authState' = authState]_vars

C13_Witness ==
  \E i \in Callers :
    /\ ft_pc[i] = "done" /\ ft_result[i].kind = "resolved" /\ ~SawExpired(i)
    /\ ft_result[i].token = prevSession.td.access_token
    /\ authState.isSignedIn

\* ------------------------------------------------------------------------
\* The expiry decision of fetchToken over a range of tokens and clocks
\* ------------------------------------------------------------------------
\* seconds beyond the safety margin covered by the expiry claims and clocks
MaxExpOffset == 2

BufferSec == BufferMs \div 1000

\* exp claims: negative, absent (0), and from the margin upwards
ExpiryExps == {-1, 0} \cup (BufferSec..(BufferSec + MaxExpOffset))

\* clocks: whole seconds, one millisecond after, one millisecond before
ExpiryNows == {sec * 1000 + ms : sec \in 0..MaxExpOffset, ms \in {0, 1, 999}}

\* the persisted access tokens: JWTs with these exp claims, and a token
\* that is not a JWT
ExpiryTokens == {Jwt(1, "alice", e) : e \in ExpiryExps}
                  \cup {OpaqueToken(1, "alice")}

InitExpiry ==
  /\ platform \in {"web", "native"}
  /\ now \in ExpiryNows
  /\ url = NoUrl
  /\ sessionState = "none"
  /\ navigated = FALSE
  /\ mounted = FALSE
  /\ cb_result = "none"
  /\ \E t \in ExpiryTokens :
       prevSession = [td |-> [access_token |-> t, refresh_token |-> 1],
                      user |-> "alice"]
  /\ store = PersistedStore(platform, prevSession)
  /\ authState = SignedOutState
  /\ isLoading = TRUE
  /\ loadingSets = 0
  /\ ls_pc = "init" /\ ls_tokens = NoBlob /\ ls_user = NoBlob
  /\ ls_td = NoTokenData /\ ls_outcome = "none"
  /\ ft_pc = [i \in Callers |-> "idle"]
  /\ ft_tokens = [i \in Callers |-> NoBlob]
  /\ ft_td = [i \in Callers |-> NoTokenData]
  /\ ft_result = [i \in Callers |-> NoResult]
  /\ ft_afterSignout = [i \in Callers |-> FALSE]
  /\ ft_overlap = {}
  /\ ft_fault = [i \in Callers |-> FALSE]
  /\ ft_error = [i \in Callers |-> "none"]
  /\ so_pc = "idle" /\ so_result = "pending"
  /\ so_calls = 0 /\ so_snap = NoSnapshot
  /\ lg_pc = "idle" /\ lg_td = NoTokenData /\ lg_user = NoUser
  /\ lg_result = "pending"
  /\ lg_prompt = "none"
  /\ db_pc = "idle" /\ db_op = "none" /\ db_sent = <<>>
  /\ db_response = NoResponse /\ db_result = NoDbResult
  /\ InitCall /\ InitSdk /\ InitNoQuery

NextExpiry ==
  \/ Mount
  \/ \E i \in Callers : FT_Start(i)
  \/ \E i \in Callers : FT_Read(i)
  \/ \E i \in Callers : FT_RefreshResp(i)
  \/ \E i \in Callers : FT_StoreTokens(i)

SpecExpiry == InitExpiry /\ [][NextExpiry]_vars

\* C14: for every exp claim (seconds) and clock (milliseconds), fetchToken
\* returns the stored access token without a refresh exactly when
\* exp * 1000 - now > 300000; with exactly 5 minutes left, with a token that
\* cannot be decoded or with one that has no exp claim it refreshes.
C14_ExpiryDecision ==
  [][\A i \in Callers :
       LET stored == GetItemValue(platform, store[TOKEN_STORAGE_KEY])
           t == ParseAccess(stored)
           stillGood == t.jwt /\ t.exp # 0 /\ t.exp * 1000 - now > 300000
       IN  (/\ ft_pc[i] = "read" /\ ft_pc'[i] # "read" /\ ~ft_fault'[i]
            /\ Len(stored) # 0)
             => /\ stillGood <=>
                     (ft_pc'[i] = "done" /\ ft_result'[i] = Resolved(t))
                /\ ~stillGood <=>
                     (ft_pc'[i] = "refresh" /\ ft_tokens'[i] = stored)]_vars

\* a caller is refreshing a JWT that had exactly 5 minutes left
C14_Witness ==
  \E i \in Callers :
    /\ ft_pc[i] = "refresh"
    /\ ParseAccess(ft_tokens[i]).jwt
    /\ ParseAccess(ft_tokens[i]).exp * 1000 - now = 300000

\* ------------------------------------------------------------------------
\* A TableClient operation, with BasicProvider's getToken as its supplier
\* ------------------------------------------------------------------------
\* the fetchToken call behind the headers() of the operation, and the one
\* behind the headers() that handleRequest logs
HeadersCall == 1
LogCall == 2

\* getToken of the provider's db: await fetchToken(), throw on a falsy token
getToken(i) ==
  IF ft_result[i].kind = "rejected"
    THEN [ok |-> FALSE, token |-> NoToken, message |-> ft_error[i]]
  ELSE IF ft_result[i].token = NoToken
    THEN [ok |-> FALSE, token |-> NoToken, message |-> "User not authenticated"]
  ELSE [ok |-> TRUE, token |-> ft_result[i].token, message |-> "none"]

\* the application calls an operation: runs through headers() and getToken()
\* into fetchToken, up to its await storageAdapter.getItem
DB_Invoke(table, op, args) ==
  /\ CanCall /\ db_pc = "idle" /\ sdk = "constructed"
  /\ \A i \in Callers : ft_pc[i] = "idle"
  /\ db_pc' = "headers"
  /\ db_table' = from(table)
  /\ db_op' = op
  /\ db_args' = args
  /\ FT_Call(HeadersCall)
  /\ UNCHANGED <<envVars, store, authState, isLoading, loadingSets>>
  /\ UNCHANGED <<ft_tokens, ft_td, ft_result, ft_fault, ft_error>>
  /\ UNCHANGED <<db_sent, db_fetch, db_response, db_result, sdkVars, qVars,
                 sa_call>>
  /\ UNCHANGED <<lsVars, soVars, lgVars>>

\* an operation on the notes table with its usual arguments
DB_Start(op) == DB_Invoke("notes", op, DefaultArgs(op))

DB_Send_StateToken ==
  /\ Running /\ db_pc = "headers" /\ ft_pc[HeadersCall] = "done"
  /\ db_sent' = Append(db_sent, Request(db_op, authState.accessToken))
  /\ db_fetch' = Append(db_fetch, FetchArgs(schema.project_id, db_table, db_op,
                                        db_args))
  /\ db_pc' = "logHeaders"
  /\ FT_Call(LogCall)
  /\ UNCHANGED <<envVars, store, authState, isLoading, loadingSets>>
  /\ UNCHANGED <<ft_tokens, ft_td, ft_result, ft_fault, ft_error>>
  /\ UNCHANGED <<dbInputs, db_response, db_result>>
  /\ UNCHANGED <<lsVars, soVars, lgVars>>

DB_Send_Always ==
  /\ Running /\ db_pc = "headers" /\ ft_pc[HeadersCall] = "done"
  /\ db_sent' = Append(db_sent, Request(db_op, getToken(HeadersCall).token))
  /\ db_fetch' = Append(db_fetch, FetchArgs(schema.project_id, db_table, db_op,
                                        db_args))
  /\ db_pc' = "logHeaders"
  /\ FT_Call(LogCall)
  /\ UNCHANGED <<envVars, store, authState, isLoading, loadingSets>>
  /\ UNCHANGED <<ft_tokens, ft_td, ft_result, ft_fault, ft_error>>
  /\ UNCHANGED <<dbInputs, db_response, db_result>>
  /\ UNCHANGED <<lsVars, soVars, lgVars>>

\* headers() settled: when getToken threw, the operation rejects with that
\* error (the await is outside handleRequest); otherwise fetch is called with
\* the headers and handleRequest runs up to the headers() it logs
DB_Send ==
  /\ Running /\ db_pc = "headers" /\ ft_pc[HeadersCall] = "done"
  /\ LET g == getToken(HeadersCall)
     IN  IF g.ok
           THEN /\ db_sent' = Append(db_sent, Request(db_op, g.token))
                /\ db_fetch' =
                     Append(db_fetch, FetchArgs(schema.project_id, db_table, db_op,
                                        db_args))
                /\ db_pc' = "logHeaders"
                /\ FT_Call(LogCall)
                /\ UNCHANGED db_result
           ELSE /\ db_result' = DbRejected(PlainError(g.message))
                /\ db_pc' = "done"
                /\ UNCHANGED <<db_sent, db_fetch, ft_pc, ft_afterSignout,
                               ft_overlap>>
  /\ UNCHANGED <<envVars, store, authState, isLoading, loadingSets>>
  /\ UNCHANGED <<ft_tokens, ft_td, ft_result, ft_fault, ft_error>>
  /\ UNCHANGED <<dbInputs, db_response>>
  /\ UNCHANGED <<lsVars, soVars, lgVars>>

\* the logged headers() settled: when getToken threw, the catch block of
\* handleRequest wraps the error; otherwise handleRequest awaits the request
DB_Logged ==
  /\ Running /\ db_pc = "logHeaders" /\ ft_pc[LogCall] = "done"
  /\ LET g == getToken(LogCall)
     IN  IF g.ok
           THEN /\ db_pc' = "request"
                /\ UNCHANGED db_result
           ELSE /\ db_result' = DbRejected(CatchError("Error", g.message))
                /\ db_pc' = "done"
  /\ UNCHANGED <<envVars, store, authState, isLoading, loadingSets>>
  /\ UNCHANGED <<dbInputs, db_sent, db_fetch, db_response>>
  /\ UNCHANGED <<lsVars, ftVars, soVars, lgVars>>

DB_Response_NoStatus ==
  /\ Running /\ db_pc = "request"
  /\ \E resp \in Responses :
       /\ db_response' = resp
       /\ db_result' =
            IF resp.transport \/ ResOk(resp.status) THEN handleRequest(resp)
            ELSE DbRejected(CatchError("Error", "Request failed"))
  /\ db_pc' = "done"
  /\ UNCHANGED <<envVars, store, authState, isLoading, loadingSets>>
  /\ UNCHANGED <<dbInputs, db_sent, db_fetch>>
  /\ UNCHANGED <<lsVars, ftVars, soVars, lgVars>>

\* the request settled: handleRequest interprets it
DB_Response ==
  /\ Running /\ db_pc = "request"
  /\ \E resp \in Responses :
       /\ db_response' = resp
       /\ db_result' = handleRequest(resp)
  /\ db_pc' = "done"
  /\ UNCHANGED <<envVars, store, authState, isLoading, loadingSets>>
  /\ UNCHANGED <<dbInputs, db_sent, db_fetch>>
  /\ UNCHANGED <<lsVars, ftVars, soVars, lgVars>>

\* the provider without a web callback or a login, one data operation
InitDb == Init /\ url = NoUrl /\ sessionState = "none"

NextDb ==
  \/ Mount
  \/ Tick
  \/ LS_ReadTokens
  \/ LS_ReadUser
  \/ LS_VerifyResp
  \/ LS_RefreshResp
  \/ LS_StoreTokens
  \/ \E i \in Callers : FT_Read(i)
  \/ \E i \in Callers : FT_RefreshResp(i)
  \/ \E i \in Callers : FT_StoreTokens(i)
  \/ SO_Start
  \/ SO_Del1
  \/ SO_Del2
  \/ \E op \in DbOps : DB_Start(op)
  \/ DB_Send
  \/ DB_Logged
  \/ DB_Response

SpecDb == InitDb /\ [][NextDb]_vars

\* the fetchToken call behind the operation's headers() found the stored
\* access token expired and its refresh succeeded
HeadersRefreshed ==
  /\ SawExpired(HeadersCall)
  /\ ft_pc[HeadersCall] = "done"
  /\ ft_result[HeadersCall].kind = "resolved"

PersistedPair ==
  LET stored == GetItemValue(platform, store[TOKEN_STORAGE_KEY])
  IN  [access_token |-> ParseAccess(stored),
       refresh_token |-> ParseRefresh(stored)]

\* C15: a data operation that finds the persisted access token expired and
\* whose refresh succeeds persists the refreshed pair, sends its request with
\* the refreshed access token and, with no signout and no storage fault in
\* between, settles with what the server answered: the envelope's data on a
\* 2xx envelope, never an error of the token supplier.
C15_ExpiredTokenRefreshed ==
  [][/\ (/\ db_pc = "headers" /\ ft_pc[HeadersCall] = "storeTokens"
         /\ ft_pc'[HeadersCall] = "done" /\ ~ft_fault'[HeadersCall])
          => /\ ft_result'[HeadersCall] =
                  Resolved(ft_td[HeadersCall].access_token)
             /\ PersistedPair' = ft_td[HeadersCall]
     /\ (HeadersRefreshed /\ db_pc = "headers" /\ db_pc' # "headers")
          => /\ db_pc' = "logHeaders"
             /\ db_result' = NoDbResult
             /\ db_sent' = <<Request(db_op, ft_td[HeadersCall].access_token)>>
     /\ (/\ HeadersRefreshed /\ db_pc # "done" /\ db_pc' = "done"
         /\ so_pc = "idle" /\ ~ft_fault[LogCall])
          => /\ db_pc = "request"
             /\ db_response' \in Responses
             /\ db_result' = handleRequest(db_response')
             /\ (/\ ResOk(db_response'.status)
                 /\ db_response'.body =
                      JsonBody(JsonObject(<< <<"data", "rows">> >>)))
                  => db_result' = DbResolved("rows")]_vars

\* the operation refreshed the expired token, sent the refreshed one and
\* resolved with the rows of the envelope, the refreshed pair being persisted
C15_Witness ==
  /\ HeadersRefreshed /\ db_pc = "done"
  /\ db_result = DbResolved("rows")
  /\ db_sent = <<Request(db_op, ft_td[HeadersCall].access_token)>>
  /\ PersistedPair = ft_td[HeadersCall]
  /\ ft_td[HeadersCall].access_token # prevSession.td.access_token

\* C16: a data operation that finds no token pair persisted is rejected with
\* the not-signed-in error of fetchToken and passes no request to fetch.
C16_NoTokensNoRequest ==
  [][/\ (/\ db_pc = "headers" /\ ft_pc[HeadersCall] = "read"
         /\ ft_pc'[HeadersCall] # "read" /\ ~ft_fault'[HeadersCall]
         /\ PersistedPair = NoTokenData)
          => /\ ft_pc'[HeadersCall] = "done"
             /\ ft_result'[HeadersCall] = Rejected
             /\ ft_error'[HeadersCall] = "No tokens found - user not signed in"
     /\ (/\ db_pc = "headers" /\ db_pc' # "headers"
         /\ ft_result[HeadersCall] = Rejected)
          => /\ db_pc' = "done"
             /\ db_result'.kind = "rejected"
             /\ db_result'.error.message.detail = ft_error[HeadersCall]
             /\ db_sent' = <<>>
             /\ ft_pc'[LogCall] = "idle"]_vars

\* an operation started on an empty store was rejected as not signed in
\* without a request
C16_Witness ==
  /\ db_pc = "done" /\ StoreEmpty(store) /\ prevSession.td = NoTokenData
  /\ db_result.kind = "rejected"
  /\ db_result.error.message.detail = "No tokens found - user not signed in"
  /\ db_sent = <<>>

\* C17: every operation gets its token from getToken before it calls fetch,
\* calls fetch exactly once, and the Authorization header of that request is
\* Bearer followed by the token getToken returned to the operation.
C17_OneAuthorizedRequest ==
  /\ Len(db_sent) <= 1
  /\ (db_pc \in {"idle", "headers"}) => db_sent = <<>>
  /\ (db_pc \in {"logHeaders", "request"}) => Len(db_sent) = 1
  /\ (db_pc = "done" /\ ft_result[HeadersCall].kind = "resolved")
       => Len(db_sent) = 1
  /\ db_sent # <<>>
       => /\ ft_pc[HeadersCall] = "done"
          /\ ft_result[HeadersCall].kind = "resolved"
          /\ db_sent[1].op = db_op
          /\ db_sent[1].authorization =
               <<"Bearer", ft_result[HeadersCall].token>>

\* each of the six operations sent one request and resolved
C17_Witness ==
  /\ db_pc = "done" /\ db_result.kind = "resolved" /\ db_op = "upsert"
  /\ Len(db_sent) = 1
  /\ db_sent[1].authorization = <<"Bearer", prevSession.td.access_token>>

\* C18: every rejection of an operation is a DBError.
C18_OnlyDBError ==
  db_result.kind = "rejected" => db_result.error.type = "DBError"

\* the failure kinds of a settled request
FailureKind(resp) ==
  IF resp.transport THEN "no network"
  ELSE IF ~ResOk(resp.status) THEN "server rejected"
  ELSE IF \/ ~resp.body.parses
          \/ resp.body.json.kind # "object"
          \/ JsonGet(resp.body.json.obj, "data", Undefined) = Undefined
    THEN "unexpected shape"
  ELSE "none"

\* the fields of an error other than its message
ErrorFields(err) == <<err.status, err.response, err.cause>>

\* C19: the error of a failed request differs in status, response or cause
\* from the error of every request that failed in another of the three kinds
\* (no network, server rejected, unexpected response shape).
C19_KindsDistinguishable ==
  (db_pc = "done" /\ db_response # NoResponse /\ db_result.kind = "rejected")
    => \A other \in Responses :
         (/\ FailureKind(other) # "none"
          /\ FailureKind(other) # FailureKind(db_response)
          /\ handleRequest(other).kind = "rejected")
           => ErrorFields(handleRequest(other).error)
                # ErrorFields(db_result.error)

\* C20: for a non-2xx response the operation rejects with an error carrying
\* the response's status and, when the body is JSON, the parsed body; when
\* the body does not parse the error's message is the status and status
\* text. After a transport failure the error has no status.
C20_StatusAndBody ==
  (db_pc = "done" /\ db_response # NoResponse)
    => /\ (~db_response.transport /\ ~ResOk(db_response.status))
            => /\ db_result.kind = "rejected"
               /\ db_result.error.type = "DBError"
               /\ db_result.error.status = db_response.status
               /\ db_response.body.parses
                    => db_result.error.response = db_response.body.json
               /\ ~db_response.body.parses
                    => /\ db_result.error.message.status = db_response.status
                       /\ db_result.error.message.text =
                            StatusText(db_response.status)
       /\ db_response.transport
            => /\ db_result.kind = "rejected"
               /\ db_result.error.status = 0

\* a 404 whose body is not JSON, and one whose body is a JSON error object
C20_Witness ==
  /\ db_pc = "done" /\ db_result.kind = "rejected"
  /\ db_response.status = 404
  /\ db_result.error.status = 404
  /\ db_response.body \in {NotJsonBody,
                            JsonBody(JsonObject(<< <<"error", "denied">> >>))}

\* ------------------------------------------------------------------------
\* The requests of the operations, over tables, ids and values
\* ------------------------------------------------------------------------
\* a signed-in provider; db.from(table).<operation>(arguments) for every
\* table name, operation and argument of the input sets
InitRequest ==
  /\ Init /\ url = NoUrl /\ sessionState = "none"
  /\ prevSession = [td |-> TokenData(1, "alice", NowStart), user |-> "alice"]

NextRequest ==
  \/ Mount
  \/ \E t \in TableInputs, op \in DbOps :
       \E a \in ArgInputs(op) : DB_Invoke(t, op, a)
  \/ \E i \in Callers : FT_Read(i)
  \/ DB_Send
  \/ DB_Logged
  \/ DB_Response

SpecRequest == InitRequest /\ [][NextRequest]_vars

\* C21: a TableClient to which an operation is applied is bound to a table
\* of the schema; for a name that is not a key of schema.tables no token is
\* looked up and no request is sent.
C21_TableInSchema ==
  /\ db_pc # "idle" => db_table \in DOMAIN schema.tables
  /\ db_sent # <<>> => db_table \in DOMAIN schema.tables

\* C24: the value in the body of a POST has no id field.
C24_NoCallerId ==
  \A k \in 1..Len(db_fetch) :
    db_fetch[k].method = "POST"
      => JsonGet(JsonGet(db_fetch[k].body, "value", NoValue), "id", Undefined)
           = Undefined

\* C25: the request of each operation: select is a GET on
\* /account/{project_id}/db/{table}, get a GET on /{table}/{id}, insert a POST
\* on the table, update a PATCH, upsert a PUT and delete a DELETE on
\* /{table}/{id}; the body of POST, PATCH and PUT is {value: <the caller's
\* value>}, GET and DELETE have no body.
C25_DocumentedRequests ==
  \A k \in 1..Len(db_fetch) :
    LET r == db_fetch[k]
        onTable == <<"https://api.basic.tech", "account", schema.project_id,
                     "db", db_table>>
        onRow == onTable \o <<db_args.id>>
        valueBody == << <<"value", db_args.value>> >>
    IN  /\ db_op = "select"
            => r.method = "GET" /\ r.path = onTable /\ r.body = <<>>
        /\ db_op = "get"
            => /\ r.method = "GET" /\ r.path = onRow /\ r.body = <<>>
               /\ r.query = <<>>
        /\ db_op = "insert"
            => /\ r.method = "POST" /\ r.path = onTable /\ r.body = valueBody
               /\ r.query = <<>>
        /\ db_op = "update"
            => /\ r.method = "PATCH" /\ r.path = onRow /\ r.body = valueBody
               /\ r.query = <<>>
        /\ db_op = "upsert"
            => /\ r.method = "PUT" /\ r.path = onRow /\ r.body = valueBody
               /\ r.query = <<>>
        /\ db_op = "delete"
            => /\ r.method = "DELETE" /\ r.path = onRow /\ r.body = <<>>
               /\ r.query = <<>>

\* a full replacement of row r2 was sent as a PUT with a two-field value
C25_Witness ==
  /\ db_pc = "done" /\ db_op = "upsert" /\ db_args.id = "r2"
  /\ Len(db_fetch) = 1
  /\ db_fetch[1].method = "PUT"
  /\ db_fetch[1].body =
       << <<"value", << <<"title", "a">>, <<"priority", "4">> >> >> >>

\* ------------------------------------------------------------------------
\* Schemas: createSchema and the construction of BasicDBSDK
\* ------------------------------------------------------------------------
FieldTypeInputs == {"string", "boolean", "number", "json", "date"}
FieldInputs ==
  {Field(ty, "undefined") : ty \in FieldTypeInputs}
    \cup {Field("string", "yes")}
FieldNameInputs == {"title", "tags"}
TableNameInputs == {"notes", "todos"}

\* every table over the field names: without fields, with an empty fields
\* object, with one or both fields declared
TableShapes ==
  {TableWithoutFields}
    \cup UNION {{Table(fs) : fs \in [names -> FieldInputs]} :
                  names \in SUBSET FieldNameInputs}

\* the schemas an application can write
Schemas ==
  {DocumentedSchema}
    \cup UNION {{[project_id |-> pid,
                  version |-> [isNumber |-> isNum, val |-> 1],
                  tables |-> ts] :
                   pid \in {"YOUR_PROJECT_ID", "  "}, isNum \in BOOLEAN,
                   ts \in [names -> TableShapes]} :
                  names \in SUBSET TableNameInputs}

\* String.prototype.trim on the project ids above
Trim(str) == IF str = "  " THEN "" ELSE str

CsReturned(sch) == [kind |-> "returned", value |-> sch]
CsThrew(check) == [kind |-> check, value |-> DocumentedSchema]

\* createSchema: the runtime validation, then `return schema`
createSchema(sch) ==
  IF Trim(sch.project_id) = "" THEN CsThrew("threw: project_id")
  ELSE IF ~sch.version.isNumber THEN CsThrew("threw: version")
  ELSE IF DOMAIN sch.tables = {} THEN CsThrew("threw: tables")
  ELSE IF \E t \in DOMAIN sch.tables :
            \/ ~sch.tables[t].hasFields
            \/ DOMAIN sch.tables[t].fields = {}
            \/ \E f \in DOMAIN sch.tables[t].fields :
                 \/ sch.tables[t].fields[f].type
                      \notin {"string", "boolean", "number"}
                 \/ sch.tables[t].fields[f].indexed
                      \notin {"undefined", "true", "false"}
    THEN CsThrew("threw: table")
  ELSE CsReturned(sch)

\* the application passes its schema through createSchema
SC_CreateSchema ==
  /\ cs_result.kind = "none" /\ sdk = "none"
  /\ cs_result' = createSchema(schema)
  /\ UNCHANGED <<envVars, store, authState, isLoading, loadingSets>>
  /\ UNCHANGED <<lsVars, ftVars, soVars, lgVars>>
  /\ UNCHANGED <<db_pc, db_op, db_table, db_args, db_sent, db_fetch,
                 db_response, db_result, schema, sdk, qVars, sa_call>>

\* BasicProvider renders with the schema: its useMemo runs the constructor of
\* BasicDBSDK, which keeps config.schema as it is
SC_Construct ==
  /\ sdk = "none"
  /\ cs_result.kind \in {"none", "returned"}
  /\ sdk' = "constructed"
  /\ UNCHANGED <<envVars, store, authState, isLoading, loadingSets>>
  /\ UNCHANGED <<lsVars, ftVars, soVars, lgVars>>
  /\ UNCHANGED <<db_pc, db_op, db_table, db_args, db_sent, db_fetch,
                 db_response, db_result, schema, cs_result, qVars, sa_call>>

InitSchema ==
  /\ InitAuth /\ InitCall /\ InitNoQuery
  /\ platform = "native" /\ prevSession.td = NoTokenData
  /\ schema \in Schemas
  /\ sdk = "none"
  /\ cs_result = NoCsResult

NextSchema ==
  \/ SC_CreateSchema
  \/ SC_Construct

SpecSchema == InitSchema /\ [][NextSchema]_vars

\* the schemas the claims call malformed: a table without fields, or a field
\* type outside string, boolean, number, json
Malformed(sch) ==
  \E t \in DOMAIN sch.tables :
    \/ ~sch.tables[t].hasFields
    \/ \E f \in DOMAIN sch.tables[t].fields :
         sch.tables[t].fields[f].type
           \notin {"string", "boolean", "number", "json"}

\* and well-formed: every other requirement on a schema holds as well
WellFormed(sch) ==
  /\ ~Malformed(sch)
  /\ sch.project_id \notin {"", "  "}
  /\ sch.version.isNumber
  /\ DOMAIN sch.tables # {}
  /\ \A t \in DOMAIN sch.tables :
       /\ DOMAIN sch.tables[t].fields # {}
       /\ \A f \in DOMAIN sch.tables[t].fields :
            sch.tables[t].fields[f].indexed \in {"undefined", "true", "false"}

\* C22: a malformed schema is returned by no createSchema call and no
\* BasicDBSDK is constructed with it.
C22_MalformedRejected ==
  Malformed(schema) => (cs_result.kind # "returned" /\ sdk # "constructed")

\* C23: createSchema returns every well-formed schema, unchanged.
C23_WellFormedAccepted ==
  (WellFormed(schema) /\ cs_result.kind # "none")
    => cs_result = CsReturned(schema)

\* ------------------------------------------------------------------------
\* The requests to the token endpoint
\* ------------------------------------------------------------------------
\* config.clientId: the project_id prop of BasicProvider
ClientId == "YOUR_PROJECT_ID"

\* the body refreshAccessToken posts
RefreshRequestBody(refreshToken) ==
  << <<"grant_type", "refresh_token">>,
     <<"code", refreshToken>>,
     <<"client_id", ClientId>> >>

\* the body handleLoginCode posts
ExchangeRequestBody(code) ==
  << <<"code", code>>,
     <<"client_id", ClientId>>,
     <<"grant_type", "authorization_code">> >>

\* the authorization code handleLoginCode was called with: the one of the
\* callback url, or the one of the prompt's result
LoginCode == IF platform = "web" THEN url.code ELSE "c1"

HasKeys(body, keys) ==
  \A k \in keys : \E n \in 1..Len(body) : body[n][1] = k

\* C26: every request in flight to the token endpoint has grant_type,
\* client_id and redirect_uri; a code exchange has the authorization code
\* under code, a refresh has the refresh token under refresh_token.
C26_TokenRequestBodies ==
  /\ \A i \in Callers :
       ft_pc[i] = "refresh"
         => LET rt == ParseRefresh(ft_tokens[i])
                body == RefreshRequestBody(rt)
            IN  /\ HasKeys(body, {"grant_type", "client_id", "redirect_uri",
                                  "refresh_token"})
                /\ JsonGet(body, "grant_type", "") = "refresh_token"
                /\ JsonGet(body, "refresh_token", NoRefresh) = rt
  /\ ls_pc = "refresh"
       => LET rt == ParseRefresh(ls_tokens)
              body == RefreshRequestBody(rt)
          IN  /\ HasKeys(body, {"grant_type", "client_id", "redirect_uri",
                                "refresh_token"})
              /\ JsonGet(body, "grant_type", "") = "refresh_token"
              /\ JsonGet(body, "refresh_token", NoRefresh) = rt
  /\ lg_pc = "exchange"
       => LET body == ExchangeRequestBody(LoginCode)
          IN  /\ HasKeys(body, {"grant_type", "client_id", "redirect_uri",
                                "code"})
              /\ JsonGet(body, "grant_type", "") = "authorization_code"
              /\ JsonGet(body, "code", "") = LoginCode

SO_Call ==
  /\ Running /\ Quiescent /\ so_calls < MaxSignouts
  /\ so_pc' = "del1"
  /\ so_result' = "pending"
  /\ so_calls' = so_calls + 1
  /\ so_snap' = [store |-> store, authState |-> authState]
  /\ UNCHANGED <<envVars, store, authState, isLoading, loadingSets>>
  /\ UNCHANGED <<lsVars, ftVars, lgVars>>
  /\ UNCHANGED dbVars

InitSignout == Init /\ url = NoUrl /\ sessionState = "none"

NextSignout ==
  \/ Mount
  \/ LS_ReadTokens
  \/ LS_ReadUser
  \/ LS_VerifyResp
  \/ LS_RefreshResp
  \/ LS_StoreTokens
  \/ SO_Call
  \/ SO_Del1
  \/ SO_Del2

SpecSignout == InitSignout /\ [][NextSignout]_vars

\* a call of signout() settles in this step
SignoutSettles == so_pc # "done" /\ so_pc' = "done"

\* C28: every signout() called with nothing else in flight settles without
\* raising, with the store empty and AuthState signed out; a call made right
\* after another one leaves the store and AuthState as that one left them.
C28_SignoutIdempotent ==
  [][SignoutSettles =>
       /\ so_result' \in {"resolved", "swallowed"}
       /\ StoreEmpty(store')
       /\ authState' = SignedOutState
       /\ (so_calls >= 2 =>
             [store |-> store', authState |-> authState'] = so_snap)]_vars

\* ------------------------------------------------------------------------
\* Queries: methods chained on getAll()
\* ------------------------------------------------------------------------

\* the longest fetched set
MaxRecords == 5

\* the records of the documented examples: a priority and an array of tags
PriorityInputs == {1, 4}
TagsInputs == {<<>>, <<"work">>}
Note(priority, tags) == [priority |-> priority, tags |-> tags]
NoteInputs == {Note(p, t) : p \in PriorityInputs, t \in TagsInputs}

RECURSIVE SeqsUpTo(_, _)
SeqsUpTo(S, n) ==
  IF n = 0 THEN {<<>>}
  ELSE LET shorter == SeqsUpTo(S, n - 1)
       IN  shorter \cup {Append(q, x) : q \in {r \in shorter : Len(r) = n - 1},
                                        x \in S}
RecordInputs == SeqsUpTo(NoteInputs, MaxRecords)

\* a method call chained on what getAll() returned; the argument of filter
\* is an object of conditions, kept as a sequence of (field, operator, operand)
NoCondition == <<>>
Condition(field, op, num, set) ==
  [field |-> field, op |-> op, num |-> num, set |-> set]
Call(method, cond, n) == [method |-> method, cond |-> cond, n |-> n]
FilterGt(field, num) == Call("filter", <<Condition(field, "gt", num, {})>>, 0)
FilterIn(field, set) == Call("filter", <<Condition(field, "in", 0, set)>>, 0)
Limit(n) == Call("limit", NoCondition, n)
Offset(n) == Call("offset", NoCondition, n)

\* the documented chains, and getAll() alone
PriorityFilter == <<FilterGt("priority", 3)>>
TagsFilter == <<FilterIn("tags", {"work", "important"})>>
LimitOffset == <<Limit(2), Offset(1)>>
OffsetLimit == <<Offset(1), Limit(2)>>
\* the filters the documentation lists as limitations: conditions on two
\* fields, and a range on one field
TwoFieldFilter ==
  <<Call("filter", <<Condition("priority", "gt", 3, {}),
                     Condition("tags", "in", 0, {"work", "important"})>>, 0)>>
RangeFilter ==
  <<Call("filter", <<Condition("priority", "gte", 2, {}),
                     Condition("priority", "lte", 3, {})>>, 0)>>
ChainInputs ==
  {<<>>, PriorityFilter, TagsFilter, LimitOffset, OffsetLimit, TwoFieldFilter,
   RangeFilter}

\* getAll is an async method: it returns a Promise, whose methods are these
PromiseMethods == {"then", "catch", "finally"}

Rows(rows) == [kind |-> "rows", rows |-> rows]
ThrewTypeError == [kind |-> "TypeError", rows |-> <<>>]

\* does record r meet condition c
Intersects(tags, set) == \E i \in 1..Len(tags) : tags[i] \in set
Meets(r, c) ==
  IF c.op = "in" THEN Intersects(r[c.field], c.set)
  ELSE IF c.op = "gt" THEN r[c.field] > c.num
  ELSE IF c.op = "gte" THEN r[c.field] >= c.num
  ELSE r[c.field] <= c.num

\* the records that meet the first n conditions of a filter
Filtered(records, conds, n) ==
  LET Keep(r) == \A i \in 1..n : Meets(r, conds[i])
  IN  SelectSeq(records, Keep)

\* a filter that applied its first condition only
EvalChain_FirstCondition(records, chain) ==
  IF chain = <<>> THEN [kind |-> "rows", rows |-> records]
  ELSE IF chain[1].method = "filter"
    THEN [kind |-> "rows", rows |-> Filtered(records, chain[1].cond, 1)]
  ELSE [kind |-> "TypeError", rows |-> <<>>]

\* await db.from(table).getAll()<chain>, the server holding `records`: the
\* first chained call is made on the Promise, before anything is awaited
EvalChain(records, chain) ==
  IF chain = <<>> THEN Rows(records)
  ELSE IF chain[1].method \in PromiseMethods THEN Rows(records)
  ELSE ThrewTypeError

Q_Run ==
  /\ Running /\ sdk = "constructed" /\ q_result = NoQueryResult
  /\ q_result' = EvalChain(q_records, q_chain)
  /\ UNCHANGED <<q_records, q_chain>>
  /\ UNCHANGED <<envVars, store, authState, isLoading, loadingSets>>
  /\ UNCHANGED <<lsVars, ftVars, soVars, lgVars>>
  /\ UNCHANGED <<db_pc, db_op, db_table, db_args, db_sent, db_fetch,
                 db_response, db_result, sdkVars, sa_call>>

InitQuery ==
  /\ InitAuth /\ InitCall /\ InitSdk
  /\ platform = "web" /\ url = NoUrl /\ sessionState = "none"
  /\ prevSession = [td |-> TokenData(1, "alice", NowStart), user |-> "alice"]
  /\ q_records \in RecordInputs
  /\ q_chain \in ChainInputs
  /\ q_result = NoQueryResult

NextQuery ==
  \/ Mount
  \/ Q_Run

SpecQuery == InitQuery /\ [][NextQuery]_vars

GtThree(r) == r.priority > 3
TaggedWork(r) == Intersects(r.tags, {"work", "important"})

\* C29: filter {priority: {gt: 3}} gives exactly the fetched records whose
\* priority is greater than 3, in fetched order, and filter {tags: {in: S}}
\* exactly those whose tags intersect S.
C29_FilterResult ==
  q_result # NoQueryResult =>
    /\ q_chain = PriorityFilter => q_result = Rows(SelectSeq(q_records, GtThree))
    /\ q_chain = TagsFilter => q_result = Rows(SelectSeq(q_records, TaggedWork))

\* C30: over five records limit(2).offset(1) and offset(1).limit(2) both
\* give the records at index 1 and 2 (counted from 0).
C30_ChainOrderIrrelevant ==
  (q_result # NoQueryResult /\ Len(q_records) = 5
     /\ q_chain \in {LimitOffset, OffsetLimit}) =>
    q_result = Rows(<<q_records[2], q_records[3]>>)

SignoutCleared == so_pc = "done" /\ so_result = "resolved"

\* no login was started after the mount: a login still running is the code
\* exchange of the web callback, started by the mount effect
NoNewLogin == lg_pc = "idle" \/ platform = "web"

\* C32: once signout() has cleared the store and no new login is started,
\* the store is empty: a refresh or code exchange that was in flight when
\* signout() ran writes nothing back.
C32_NoWriteBack == (SignoutCleared /\ NoNewLogin) => StoreEmpty(store)

\* C33: whenever initialization has finished, nothing is in flight and
\* AuthState is not signed in, no token pair is persisted (so a fetchToken()
\* started then finds nothing and no request gets a bearer token).
C33_SignedOutHoldsNoPair ==
  (mounted /\ Quiescent /\ ~authState.isSignedIn) =>
    store[TOKEN_STORAGE_KEY] = NoBlob

\* C34: whenever nothing is in flight and AuthState is signed in, its access
\* token and refresh token are the persisted pair.
C34_MemoryMatchesStore ==
  (mounted /\ Quiescent /\ authState.isSignedIn) =>
    /\ authState.accessToken = PersistedPair.access_token
    /\ authState.refreshToken = PersistedPair.refresh_token

\* C35: on the web callback path a code is exchanged only when a state value
\* was stored for the attempt and the state parameter of the callback equals
\* it.
C35_ExchangeNeedsStoredState ==
  (platform = "web" /\ ~navigated /\ cb_result = "exchanging") =>
    (sessionState # "none" /\ url.state = sessionState)

\* C36: an operation whose request was passed to fetch settles by the answer
\* to that request: it awaits the answer, and an answer with a 2xx envelope
\* makes it resolve with the envelope's data, whatever the token supplier does
\* after the request was issued.
C36_AnswerDecides ==
  (db_pc = "done" /\ db_sent # <<>>) =>
    /\ db_response # NoResponse
    /\ (~db_response.transport /\ ResOk(db_response.status)
          /\ db_response.body.parses
          /\ db_response.body.json.kind = "object")
         => db_result.kind = "resolved"

\* ------------------------------------------------------------------------
\* storageAdapter called directly
\* ------------------------------------------------------------------------

\* the strings written: a token pair, a user record, and a user record with
\* a character outside Latin-1
StorageValues ==
  { StringifyTokens(TokenData(1, "alice", NowStart)),
    StringifyUser("alice"),
    StringifyUser("li") }

Settled(o) == IF o = "ok" THEN "resolved" ELSE "rejected"

\* await storageAdapter.setItem(k, v)
SA_SetItem(k, v) ==
  /\ \E o \in StorageOutcomes(platform) :
       /\ IF o = "ok"
            THEN store' = [store EXCEPT ![k] = SetItemValue(platform, @, v)]
            ELSE UNCHANGED store
       /\ sa_call' = StorageCall("setItem", k, v, Settled(o), NoBlob,
                                 GetItemValue(platform, store[k]))
  /\ UNCHANGED <<envVars, authState, isLoading, loadingSets>>
  /\ UNCHANGED <<lsVars, ftVars, soVars, lgVars>>
  /\ UNCHANGED <<db_pc, db_op, db_table, db_args, db_sent, db_fetch,
                 db_response, db_result, sdkVars, qVars>>

\* await storageAdapter.getItem(k)
SA_GetItem(k) ==
  /\ \E o \in StorageOutcomes(platform) :
       sa_call' = StorageCall("getItem", k, NoBlob, Settled(o),
                              IF o = "ok" THEN GetItemValue(platform, store[k])
                              ELSE NoBlob,
                              GetItemValue(platform, store[k]))
  /\ UNCHANGED <<envVars, store, authState, isLoading, loadingSets>>
  /\ UNCHANGED <<lsVars, ftVars, soVars, lgVars>>
  /\ UNCHANGED <<db_pc, db_op, db_table, db_args, db_sent, db_fetch,
                 db_response, db_result, sdkVars, qVars>>

\* await storageAdapter.deleteItem(k)
SA_DeleteItem(k) ==
  /\ \E o \in StorageOutcomes(platform) :
       /\ IF o = "ok" THEN DeleteItem(k) ELSE UNCHANGED store
       /\ sa_call' = StorageCall("deleteItem", k, NoBlob, Settled(o), NoBlob,
                                 GetItemValue(platform, store[k]))
  /\ UNCHANGED <<envVars, authState, isLoading, loadingSets>>
  /\ UNCHANGED <<lsVars, ftVars, soVars, lgVars>>
  /\ UNCHANGED <<db_pc, db_op, db_table, db_args, db_sent, db_fetch,
                 db_response, db_result, sdkVars, qVars>>

InitStorage == Init /\ url = NoUrl /\ sessionState = "none"

NextStorage ==
  \/ \E k \in Keys, v \in StorageValues : SA_SetItem(k, v)
  \/ \E k \in Keys : SA_GetItem(k)
  \/ \E k \in Keys : SA_DeleteItem(k)

SpecStorage == InitStorage /\ [][NextStorage]_vars

\* getItem(k) resolves right after a call on the same key resolved
ReadsBack(op) ==
  /\ sa_call.op = op /\ sa_call.outcome = "resolved"
  /\ sa_call'.op = "getItem" /\ sa_call'.outcome = "resolved"
  /\ sa_call'.key = sa_call.key

\* C37: on both backends getItem(k) returns v after setItem(k, v) resolved
\* and null after deleteItem(k) resolved; so no write that was not stored
\* resolves while getItem keeps returning the previous value.
C37_StorageRoundTrip ==
  [][/\ ReadsBack("setItem") => sa_call'.returned = sa_call.value
     /\ ReadsBack("deleteItem") => sa_call'.returned = NoBlob]_vars

====
